---- MODULE Spec2Model ----
(***************************************************************************)
(* Model of Scripts/browser-use-sidecar/runtime_hook.py, the PyInstaller   *)
(* runtime hook of browser-use-sidecar.                                    *)
(*                                                                         *)
(* The hook is a straight-line script: it replaces                         *)
(* urllib.request.getproxies by a stub (line 17), pops eight proxy         *)
(* variables from os.environ (lines 20-22) and calls                       *)
(* _fix_importlib_resources() (line 65), which may replace                 *)
(* importlib.resources.files by the closure patched_files (lines 27-63).   *)
(*                                                                         *)
(* Strings are sequences of one-character strings, so that                 *)
(* str.replace('.', '/') and pathlib's parsing and joining are computed    *)
(* character by character.  A pathlib.Path is a record [root, parts]       *)
(* (POSIX flavour: the bundle targets macOS, lines 15-16).                 *)
(***************************************************************************)
EXTENDS Naturals, Sequences, FiniteSets

VARIABLES
    pc,          \* index into Program of the next statement; 0 = aborted
    i,           \* index into PROXY_VARS inside the for loop of lines 20-22
    runs,        \* completed executions of the hook in this process
    env,         \* os.environ: a mapping from the names that are set to values
    getproxies,  \* urllib.request.getproxies: "original" or "stub"
    frozen,      \* sys.frozen: "absent", "False" or "True"
    meipass,     \* sys._MEIPASS: None or a string
    files,       \* importlib.resources.files: the meipass captured by each
                 \* patched_files closure wrapped around the original,
                 \* innermost first; <<>> is the original function itself
    fs,          \* the file system: the entries created besides BaseDirs
    lastFiles,   \* observation: the most recent call of importlib.resources.files
    lastProxies, \* observation: the most recent call of urllib.request.getproxies
    base,        \* history: os.environ and importlib.resources.files when the
                 \* latest execution of the hook started
    meipass0,    \* history: sys._MEIPASS when the latest execution started
    dirty        \* history: the application changed os.environ or
                 \* sys._MEIPASS since the latest execution completed

vars == <<pc, i, runs, env, getproxies, frozen, meipass, files, fs,
          lastFiles, lastProxies, base, meipass0, dirty>>

(***************************************************************************)
(* Bounds of the model.                                                    *)
(***************************************************************************)
\* longest package-name string passed to importlib.resources.files
MaxLen == 3
\* executions of the hook in one process
MaxRuns == 2
\* file-system entries created besides BaseDirs
MaxFiles == 1

(***************************************************************************)
(* Python values.                                                          *)
(***************************************************************************)
\* the value None (line 36), a tuple that is no string of characters
None == <<"None">>

\* the characters of the package names passed to the resolver
PkgChars == {"a", "."}

\* all strings over S of length at most n
StringsUpTo(S, n) == UNION {[1..k -> S] : k \in 0..n}

\* the strings a caller may pass as `package` (line 43)
PackageStrings == StringsUpTo(PkgChars, MaxLen)

\* a well-formed dotted package name: non-empty components joined by single dots
IsDottedName(s) ==
    /\ Len(s) >= 1
    /\ s[1] # "."
    /\ s[Len(s)] # "."
    /\ \A k \in 1..(Len(s) - 1) : ~(s[k] = "." /\ s[k + 1] = ".")

\* the `package` arguments (line 43): a str, or an object that is not a str
\* (an imported module, identified here by its __name__)
Packages ==
    {[str |-> TRUE, name |-> s] : s \in PackageStrings}
        \cup {[str |-> FALSE, name |-> <<"a">>]}

\* isinstance(package, str), lines 46 and 59
isinstance_str(package) == package.str

(***************************************************************************)
(* str.replace and pathlib.                                                *)
(***************************************************************************)
\* replace with a fault: the name is used as it is
replace_nothing(s) == s

\* package.replace('.', '/'), lines 47 and 60
replace(s) == [k \in 1..Len(s) |-> IF s[k] = "." THEN "/" ELSE s[k]]

RECURSIVE LeadingSlashes(_)
\* the number of "/" a string starts with
LeadingSlashes(s) ==
    IF s = <<>> \/ s[1] # "/" THEN 0 ELSE 1 + LeadingSlashes(Tail(s))

\* the root pathlib parses from a string: exactly two leading slashes are
\* kept, any other number of them is "/"
PathRoot(s) ==
    LET n == LeadingSlashes(s)
    IN  IF n = 0 THEN "" ELSE IF n = 2 THEN "//" ELSE "/"

RECURSIVE PathParts(_, _, _)
\* the components pathlib parses from s[k..]: split on "/", empty
\* components and "." components dropped; cur is the component being read
PathParts(s, k, cur) ==
    LET done == IF cur = <<>> \/ cur = <<".">> THEN <<>> ELSE <<cur>>
    IN  IF k > Len(s) THEN done
        ELSE IF s[k] = "/" THEN done \o PathParts(s, k + 1, <<>>)
        ELSE PathParts(s, k + 1, Append(cur, s[k]))

\* Path(s), line 48
Path(s) == [root |-> PathRoot(s), parts |-> PathParts(s, 1, <<>>)]

\* p / s, line 48: an absolute s replaces p, a relative s is appended
PathJoin(p, s) ==
    IF PathRoot(s) # "" THEN Path(s)
    ELSE [root |-> p.root, parts |-> p.parts \o PathParts(s, 1, <<>>)]

\* Path(meipass) / package.replace('.', '/'), lines 47-48 and 60
pyinstaller_path(mp, name) == PathJoin(Path(mp), replace(name))

(***************************************************************************)
(* The process and its surroundings.                                       *)
(***************************************************************************)
\* line 20-21: the list the for loop walks
PROXY_VARS ==
    <<"ALL_PROXY", "all_proxy", "HTTP_PROXY", "http_proxy",
      "HTTPS_PROXY", "https_proxy", "SOCKS_PROXY", "socks_proxy">>

\* the proxy variables of the process environment (spec.md 6)
ProxyNames ==
    {"ALL_PROXY", "all_proxy", "HTTP_PROXY", "http_proxy",
     "HTTPS_PROXY", "https_proxy", "SOCKS_PROXY", "socks_proxy"}

\* an environment variable the hook does not name
OtherNames == {"PATH"}

EnvNames == ProxyNames \cup OtherNames

\* the environments a process may start with: any subset of the names set,
\* a proxy variable to a proxy URL, another variable to one of two values
Environments ==
    {e \in UNION {[S -> {"socks5://h", "x", "y"}] : S \in SUBSET EnvNames} :
        \A v \in DOMAIN e : (e[v] = "socks5://h") <=> (v \in ProxyNames)}

\* the extraction roots the bundler may set sys._MEIPASS to
Roots == {<<"/", "m">>, <<"/", "n">>}

\* the values sys._MEIPASS may have: unset (None by line 36), empty, a root
MeipassValues == {None, <<>>} \cup Roots

\* directories that exist throughout: "/", "//" and the extraction roots
BaseDirs == {Path(<<"/">>), Path(<<"/", "/">>)} \cup {Path(r) : r \in Roots}

\* the entries that come and go: the packages a and a.a under each
\* extraction root (<root>/a and <root>/a/a)
FsUniverse ==
    {pyinstaller_path(r, s) : r \in Roots, s \in {<<"a">>, <<"a", ".", "a">>}}

\* p is q or an ancestor of q
IsPrefix(p, q) ==
    /\ p.root = q.root
    /\ Len(p.parts) <= Len(q.parts)
    /\ SubSeq(q.parts, 1, Len(p.parts)) = p.parts

\* pyinstaller_path.exists(), line 51: a base directory, an entry, or an
\* ancestor of an entry
exists(p) == p \in BaseDirs \/ \E e \in fs : IsPrefix(p, e)

(***************************************************************************)
(* Disabling proxy discovery, lines 14-22.                                 *)
(***************************************************************************)
\* the scheme urllib derives from a <scheme>_proxy variable, any case
Scheme(var) ==
    CASE var \in {"ALL_PROXY", "all_proxy"} -> "all"
      [] var \in {"HTTP_PROXY", "http_proxy"} -> "http"
      [] var \in {"HTTPS_PROXY", "https_proxy"} -> "https"
      [] var \in {"SOCKS_PROXY", "socks_proxy"} -> "socks"

\* the function line 17 replaces: the proxies of the *_proxy environment
\* variables or, when there are none, those of the system configuration
\* (lines 15-16), sysconf
original_getproxies(e, sysconf) ==
    LET schemes == {Scheme(v) : v \in DOMAIN e \cap ProxyNames}
    IN  IF schemes # {} THEN [sch \in schemes |-> "socks5://h"] ELSE sysconf

\* stub_getproxies with a fault: the stub still reads the environment
stub_reads_environment == original_getproxies(env, << >>)

\* lambda: {}, line 17
stub_getproxies == << >>

\* a call of urllib.request.getproxies() through the current reference
call_getproxies(e, sysconf) ==
    IF getproxies = "stub" THEN stub_getproxies
    ELSE original_getproxies(e, sysconf)

\* the proxies the system configuration may hold
SysConfs == {<< >>, [sch \in {"socks"} |-> "socks5://h"]}

\* environ_pop with a fault: os.environ.pop(var), a KeyError when var is not set
environ_pop_keyerror(e, var) ==
    [env |-> [v \in DOMAIN e \ {var} |-> e[v]], raised |-> var \notin DOMAIN e]

\* os.environ.pop(var, None), line 22: the mapping afterwards, and whether
\* the call raised
environ_pop(e, var) ==
    [env |-> [v \in DOMAIN e \ {var} |-> e[v]], raised |-> FALSE]

(***************************************************************************)
(* The resource resolver, lines 27-63.                                     *)
(***************************************************************************)
\* what a call of the resolver ends in: kind "path" returns the Path `path`,
\* kind "original" returns what the original resolver returned for
\* calls[1], kind "raise" raises the original resolver's exception (an
\* Exception, what line 57 catches); calls lists the arguments the original
\* resolver was invoked with, probes the paths exists() was asked about
NoPath == [root |-> "", parts |-> << >>]

ReturnPath(p, calls, probes) ==
    [kind |-> "path", path |-> p, calls |-> calls, probes |-> probes]

\* importlib.resources.files as imported at line 32, saved at line 41:
\* okay says whether it succeeds or raises an Exception for this package
original_files(package, okay) ==
    [kind |-> IF okay THEN "original" ELSE "raise",
     path |-> NoPath, calls |-> <<package>>, probes |-> << >>]

RECURSIVE call_files(_, _, _)

\* patched_files with a fault: the original resolver is tried first, the
\* extraction root only when it raises
patched_files_original_first(mp, inner, package, okay) ==
    LET r == call_files(inner, package, okay)
    IN  IF r.kind # "raise" \/ ~isinstance_str(package) THEN r
        ELSE ReturnPath(pyinstaller_path(mp, package.name), r.calls, r.probes)

\* patched_files with a fault: the original resolver is given package_path
\* instead of package
patched_files_passes_path(mp, inner, package, okay) ==
    LET isstr == isinstance_str(package)
        path == pyinstaller_path(mp, package.name)
        probes == IF isstr THEN <<path>> ELSE << >>
        passed == IF isstr THEN [package EXCEPT !.name = replace(package.name)]
                  ELSE package
    IN  IF isstr /\ exists(path)
        THEN ReturnPath(path, << >>, probes)
        ELSE LET r == call_files(inner, passed, okay)
                 seen == probes \o r.probes
             IN  IF r.kind # "raise" THEN [r EXCEPT !.probes = seen]
                 ELSE IF isstr THEN ReturnPath(path, r.calls, seen)
                 ELSE [r EXCEPT !.probes = seen]

\* patched_files with a fault: no try/except around the original resolver
patched_files_no_except(mp, inner, package, okay) ==
    LET isstr == isinstance_str(package)
        path == pyinstaller_path(mp, package.name)
        probes == IF isstr THEN <<path>> ELSE << >>
    IN  IF isstr /\ exists(path)
        THEN ReturnPath(path, << >>, probes)
        ELSE LET r == call_files(inner, package, okay)
             IN  [r EXCEPT !.probes = probes \o r.probes]

\* patched_files with a fault: sys._MEIPASS is read at the call, not captured
patched_files_reads_meipass(mp, inner, package, okay) ==
    LET isstr == isinstance_str(package)
        root == IF meipass \in Roots THEN meipass ELSE mp
        path == pyinstaller_path(root, package.name)
        probes == IF isstr THEN <<path>> ELSE << >>
    IN  IF isstr /\ exists(path)
        THEN ReturnPath(path, << >>, probes)
        ELSE LET r == call_files(inner, package, okay)
                 seen == probes \o r.probes
             IN  IF r.kind # "raise" THEN [r EXCEPT !.probes = seen]
                 ELSE IF isstr THEN ReturnPath(path, r.calls, seen)
                 ELSE [r EXCEPT !.probes = seen]

\* patched_files(package), lines 43-61, of the closure that captured
\* meipass = mp and _original_files = the reference `inner`
patched_files(mp, inner, package, okay) ==
    LET isstr == isinstance_str(package)
        path == pyinstaller_path(mp, package.name)
        probes == IF isstr THEN <<path>> ELSE << >>
    IN  IF isstr /\ exists(path)
        THEN ReturnPath(path, << >>, probes)
        ELSE LET r == call_files(inner, package, okay)
                 seen == probes \o r.probes
             IN  IF r.kind # "raise" THEN [r EXCEPT !.probes = seen]
                 ELSE IF isstr THEN ReturnPath(path, r.calls, seen)
                 ELSE [r EXCEPT !.probes = seen]

\* a call through a reference to the resolver: <<>> is the original, a
\* longer reference is the closure made last around the rest
call_files(ref, package, okay) ==
    IF ref = << >> THEN original_files(package, okay)
    ELSE patched_files(ref[Len(ref)], SubSeq(ref, 1, Len(ref) - 1),
                       package, okay)

\* getattr(sys, 'frozen', False), line 29
getattr_frozen == IF frozen = "absent" THEN "False" ELSE frozen

\* getattr(sys, '_MEIPASS', None), line 36
getattr_meipass == meipass

\* `not` of a bool, line 29
not_bool(b) == b = "False"

\* `not` of a str or None, line 37: None and the empty string are false
not_str(v) == v = None \/ v = << >>

\* fix_importlib_resources with a fault: sys.frozen is not looked at
fix_without_frozen_check(ref) ==
    IF not_str(getattr_meipass) THEN ref
    ELSE Append(ref, getattr_meipass)

\* fix_importlib_resources with a fault: a resolver found patched is put back
\* to the original
fix_restores_when_patched(ref) ==
    IF not_bool(getattr_frozen) THEN ref
    ELSE IF not_str(getattr_meipass) THEN ref
    ELSE IF ref # << >> THEN << >>
    ELSE Append(ref, getattr_meipass)

\* _fix_importlib_resources(), lines 27-63: importlib.resources.files
\* afterwards
fix_importlib_resources(ref) ==
    IF not_bool(getattr_frozen) THEN ref
    ELSE IF not_str(getattr_meipass) THEN ref
    ELSE Append(ref, getattr_meipass)

(***************************************************************************)
(* The hook as a program, and its steps.                                   *)
(***************************************************************************)
\* Program with a fault: _fix_importlib_resources() is called first
ProgramFixFirst == <<"fix", "stub", "clear">>

\* the statements of the module in the order it executes them: line 17,
\* lines 20-22, line 65
Program == <<"stub", "clear", "fix">>

Aborted == 0
Done == Len(Program) + 1

\* the history, forgotten
NoBase == [valid |-> FALSE, clean |-> FALSE, env |-> << >>, files |-> << >>]

\* line 17
InstallStub ==
    /\ pc \in 1..Len(Program) /\ Program[pc] = "stub"
    /\ getproxies' = "stub"
    /\ pc' = pc + 1
    /\ runs' = IF pc' = Done THEN runs + 1 ELSE runs
    /\ dirty' = IF pc' = Done THEN FALSE ELSE dirty
    /\ UNCHANGED <<i, env, frozen, meipass, files, fs, lastFiles,
                   lastProxies, base, meipass0>>

\* one iteration of the loop of lines 20-22
ClearVar ==
    /\ pc \in 1..Len(Program) /\ Program[pc] = "clear"
    /\ LET r == environ_pop(env, PROXY_VARS[i])
       IN  /\ env' = r.env
           /\ pc' = IF r.raised THEN Aborted
                    ELSE IF i = Len(PROXY_VARS) THEN pc + 1 ELSE pc
           /\ i' = IF r.raised \/ i = Len(PROXY_VARS) THEN 1 ELSE i + 1
    /\ runs' = IF pc' = Done THEN runs + 1 ELSE runs
    /\ dirty' = IF pc' = Done THEN FALSE ELSE dirty
    /\ UNCHANGED <<getproxies, frozen, meipass, files, fs, lastFiles,
                   lastProxies, base, meipass0>>

\* line 65
FixResources ==
    /\ pc \in 1..Len(Program) /\ Program[pc] = "fix"
    /\ files' = fix_importlib_resources(files)
    /\ pc' = pc + 1
    /\ runs' = IF pc' = Done THEN runs + 1 ELSE runs
    /\ dirty' = IF pc' = Done THEN FALSE ELSE dirty
    /\ UNCHANGED <<i, env, getproxies, frozen, meipass, fs, lastFiles,
                   lastProxies, base, meipass0>>

\* the same bootstrap path is executed again in this process (spec.md 5);
\* base.clean: it starts in the state the previous execution left
Rerun ==
    /\ pc = Done /\ runs < MaxRuns
    /\ pc' = 1 /\ i' = 1
    /\ base' = [valid |-> TRUE, clean |-> ~dirty, env |-> env, files |-> files]
    /\ meipass0' = meipass
    /\ lastFiles' = << >> /\ lastProxies' = << >>
    /\ UNCHANGED <<runs, env, getproxies, frozen, meipass, files, fs, dirty>>

(***************************************************************************)
(* The application and the surroundings.  They act when the hook is not   *)
(* executing: it runs before any other code (lines 3-4), and it reads      *)
(* neither the file system nor anything it has not written itself.         *)
(***************************************************************************)
\* somebody calls importlib.resources.files(package)
CallFiles ==
    /\ pc = Done
    /\ \E package \in Packages, okay \in BOOLEAN :
          lastFiles' = <<[package |-> package, okay |-> okay,
                          result |-> call_files(files, package, okay)]>>
    /\ UNCHANGED <<pc, i, runs, env, getproxies, frozen, meipass, files, fs,
                   lastProxies, base, meipass0, dirty>>

\* somebody calls urllib.request.getproxies()
CallGetproxies ==
    /\ pc = Done
    /\ \E sysconf \in SysConfs :
          lastProxies' = <<call_getproxies(env, sysconf)>>
    /\ UNCHANGED <<pc, i, runs, env, getproxies, frozen, meipass, files, fs,
                   lastFiles, base, meipass0, dirty>>

\* the application sets a proxy variable again
SetEnv ==
    /\ pc = Done
    /\ \E var \in ProxyNames :
          env' = [v \in DOMAIN env \cup {var} |->
                     IF v = var THEN "socks5://h" ELSE env[v]]
    /\ dirty' = TRUE /\ base' = NoBase
    /\ UNCHANGED <<pc, i, runs, getproxies, frozen, meipass, files, fs,
                   lastFiles, lastProxies, meipass0>>

\* sys._MEIPASS is changed
SetMeipass ==
    /\ pc = Done
    /\ \E mp \in MeipassValues : meipass' = mp
    /\ dirty' = TRUE
    /\ UNCHANGED <<pc, i, runs, env, getproxies, frozen, files, fs,
                   lastFiles, lastProxies, base, meipass0>>

\* a file-system entry appears
CreateEntry ==
    /\ pc = Done
    /\ Cardinality(fs) < MaxFiles
    /\ \E e \in FsUniverse \ fs : fs' = fs \cup {e}
    /\ UNCHANGED <<pc, i, runs, env, getproxies, frozen, meipass, files,
                   lastFiles, lastProxies, base, meipass0, dirty>>

\* a file-system entry disappears
DeleteEntry ==
    /\ pc = Done
    /\ \E e \in fs : fs' = fs \ {e}
    /\ UNCHANGED <<pc, i, runs, env, getproxies, frozen, meipass, files,
                   lastFiles, lastProxies, base, meipass0, dirty>>

\* the state the bundler's bootloader hands to the hook
InitCommon ==
    /\ pc = 1 /\ i = 1 /\ runs = 0
    /\ getproxies = "original"
    /\ frozen \in {"absent", "False", "True"}
    /\ meipass \in MeipassValues
    /\ files = << >>
    /\ fs = {}
    /\ lastFiles = << >> /\ lastProxies = << >>

\* the history variables at the start of the first execution
InitHistory ==
    /\ base = [valid |-> TRUE, clean |-> FALSE, env |-> env, files |-> files]
    /\ meipass0 = meipass
    /\ dirty = FALSE

(***************************************************************************)
(* Spec: the hook, then an application that calls the resolver while the   *)
(* file system and sys._MEIPASS change.  The environment starts with all   *)
(* of the names set, or with PATH alone.                                   *)
(***************************************************************************)
Init ==
    /\ InitCommon
    /\ env \in {e \in Environments :
                   /\ DOMAIN e \in {OtherNames, EnvNames}
                   /\ e["PATH"] = "x"}
    /\ InitHistory

Next ==
    \/ InstallStub
    \/ ClearVar
    \/ FixResources
    \/ CallFiles
    \/ SetMeipass
    \/ CreateEntry
    \/ DeleteEntry

Spec == Init /\ [][Next]_vars

(***************************************************************************)
(* SpecProxy: the hook from every initial environment, executed up to      *)
(* MaxRuns times, and an application that sets proxy variables again and   *)
(* asks for the proxies.                                                   *)
(***************************************************************************)
InitProxy ==
    /\ InitCommon
    /\ env \in Environments
    /\ InitHistory

NextProxy ==
    \/ InstallStub
    \/ ClearVar
    \/ FixResources
    \/ Rerun
    \/ CallGetproxies
    \/ SetEnv

SpecProxy == InitProxy /\ [][NextProxy]_vars

(***************************************************************************)
(* SpecRerun: the hook from every initial environment, executed up to      *)
(* MaxRuns times, while the file system and sys._MEIPASS change between    *)
(* the executions.                                                         *)
(***************************************************************************)
NextRerun ==
    \/ InstallStub
    \/ ClearVar
    \/ FixResources
    \/ Rerun
    \/ SetMeipass
    \/ CreateEntry
    \/ DeleteEntry

SpecRerun == InitProxy /\ [][NextRerun]_vars

(***************************************************************************)
(* Vocabulary of the claims.                                               *)
(***************************************************************************)
\* the eight names the specification lists (spec.md 6)
EightNames ==
    {"ALL_PROXY", "all_proxy", "HTTP_PROXY", "http_proxy",
     "HTTPS_PROXY", "https_proxy", "SOCKS_PROXY", "socks_proxy"}

RECURSIVE DotComponents(_, _, _)
\* the components of a dotted name: a.b gives <<a, b>>
DotComponents(s, k, cur) ==
    IF k > Len(s) THEN <<cur>>
    ELSE IF s[k] = "." THEN <<cur>> \o DotComponents(s, k + 1, << >>)
    ELSE DotComponents(s, k + 1, Append(cur, s[k]))

\* extraction_root/a/b for the extraction root "/<dir>" and the name a.b
UnderRoot(root, name) ==
    [root |-> "/", parts |-> <<Tail(root)>> \o DotComponents(name, 1, << >>)]

\* the process is in bundled mode with an extraction root set when the
\* latest execution of the hook started
Bundled == frozen = "True" /\ meipass0 \in Roots

\* this step is a call of the resolver
FilesCalled == lastFiles' # lastFiles /\ lastFiles' # << >>

\* a call of the resolver has been made since the hook ran
Called == lastFiles # << >>

\* the hook has been executed at least once and is not executing
Patched == pc = Done

\* the dotted package names given as strings
DottedPackages == {p \in Packages : p.str /\ IsDottedName(p.name)}

(***************************************************************************)
(* C1.  After the patcher has run, proxy discovery returns an empty        *)
(* mapping in every later state: whatever proxy variables were set before, *)
(* bundled or not, and also when proxy variables are set again afterwards, *)
(* and whatever the system configuration holds.                            *)
(***************************************************************************)
C1_ProxyDiscoveryEmpty ==
    (runs >= 1) =>
        /\ \A sysconf \in SysConfs : call_getproxies(env, sysconf) = << >>
        /\ lastProxies # << >> => lastProxies[1] = << >>

\* proxy discovery was called after HTTP_PROXY, set before the patch, was
\* set again after it, outside bundled mode
C1_Witness ==
    /\ pc = Done /\ runs = 2
    /\ frozen = "False"
    /\ lastProxies = << << >> >>
    /\ "HTTP_PROXY" \in DOMAIN env
    /\ dirty

(***************************************************************************)
(* C2.  When an execution of the hook has completed, none of the eight     *)
(* names is in the environment, every other name has exactly the presence  *)
(* and the value it had when the execution started, and the execution did  *)
(* not abort on a listed name that was not set.                            *)
(***************************************************************************)
C2_EnvironmentCleared ==
    /\ pc # Aborted
    /\ (pc = Done /\ base.valid) =>
          /\ DOMAIN env = DOMAIN base.env \ EightNames
          /\ \A v \in DOMAIN env : env[v] = base.env[v]

\* an execution that started with HTTP_PROXY and PATH set and http_proxy
\* not set has completed
C2_Witness ==
    /\ pc = Done /\ base.valid
    /\ DOMAIN base.env = {"HTTP_PROXY", "ALL_PROXY", "PATH"}
    /\ base.env["PATH"] = "y"
    /\ env = [v \in {"PATH"} |-> "y"]

(***************************************************************************)
(* C10.  Proxy disabling does not depend on the bundling inputs and        *)
(* precedes the resolver patch: whatever sys.frozen and sys._MEIPASS are,  *)
(* the step that replaces the resolver reference (or leaves it alone), and *)
(* any step that changes that reference, starts in a state where the stub  *)
(* is installed and none of the eight names is in the environment; and     *)
(* both hold when the execution completes.                                 *)
(***************************************************************************)
C10_ProxyBeforeResolver ==
    [][ /\ (files' # files \/ (pc \in 1..Len(Program) /\ Program[pc] = "fix"))
            => /\ pc \in 1..Len(Program) /\ Program[pc] = "fix"
               /\ getproxies = "stub"
               /\ DOMAIN env \cap EightNames = {}
        /\ (pc # Done /\ pc' = Done)
            => /\ getproxies' = "stub"
               /\ DOMAIN env' \cap EightNames = {} ]_vars

\* an execution outside bundled mode, started with proxy variables set, has
\* completed and left the resolver alone
C10_Witness ==
    /\ pc = Done /\ base.valid
    /\ frozen = "absent" /\ meipass = None
    /\ "socks_proxy" \in DOMAIN base.env
    /\ getproxies = "stub" /\ files = << >>

(***************************************************************************)
(* C3.  If sys.frozen is false (or not set), or sys._MEIPASS is absent     *)
(* while sys.frozen is true, the hook leaves the resolver reference        *)
(* unchanged: no step changes it, and every later call ends exactly as the *)
(* original resolver does, its failure included, the original invoked once *)
(* with the caller's package and exists() asked about no path.             *)
(***************************************************************************)
C3_ResolverLeftAlone ==
    [][ (frozen # "True" \/ meipass0 = None) =>
          /\ files' = files
          /\ FilesCalled =>
                LET c == lastFiles'[1]
                IN  c.result =
                      [kind |-> IF c.okay THEN "original" ELSE "raise",
                       path |-> NoPath,
                       calls |-> <<c.package>>,
                       probes |-> << >>] ]_vars

\* in bundled mode without an extraction root, a call for a.a ended in the
\* original resolver's exception although <root>/a/a exists
C3_Witness ==
    /\ Patched /\ Called
    /\ frozen = "True" /\ meipass0 = None
    /\ lastFiles[1].package = [str |-> TRUE, name |-> <<"a", ".", "a">>]
    /\ lastFiles[1].result.kind = "raise"
    /\ fs # {}

(***************************************************************************)
(* C4.  In bundled mode with an extraction root set, a call for a dotted   *)
(* package name a.b given as a string, made while extraction_root/a/b      *)
(* exists, returns exactly that path and does not invoke the original      *)
(* resolver.                                                               *)
(***************************************************************************)
C4_ExistingPathReturned ==
    [][ (FilesCalled /\ Bundled) =>
          LET c == lastFiles'[1]
              p == UnderRoot(meipass0, c.package.name)
          IN  (c.package \in DottedPackages /\ exists(p)) =>
                 /\ c.result.kind = "path"
                 /\ c.result.path = p
                 /\ c.result.calls = << >> ]_vars

\* a call for a.a returned /m/a/a where the original resolver would have
\* raised
C4_Witness ==
    /\ Patched /\ Called /\ Bundled
    /\ lastFiles[1].package = [str |-> TRUE, name |-> <<"a", ".", "a">>]
    /\ ~lastFiles[1].okay
    /\ lastFiles[1].result.kind = "path"
    /\ lastFiles[1].result.path =
          [root |-> "/", parts |-> <<<<"m">>, <<"a">>, <<"a">>>>]
    /\ lastFiles[1].result.calls = << >>
    /\ exists(lastFiles[1].result.path)

(***************************************************************************)
(* C5.  In bundled mode with an extraction root set, a call for a dotted   *)
(* package name whose extraction-root path does not exist, and for which   *)
(* the original resolver succeeds, returns the original resolver's result; *)
(* the original resolver is invoked exactly once, with the caller's        *)
(* package.                                                                *)
(***************************************************************************)
C5_FallBackToOriginal ==
    [][ (FilesCalled /\ Bundled) =>
          LET c == lastFiles'[1]
              p == UnderRoot(meipass0, c.package.name)
          IN  (c.package \in DottedPackages /\ ~exists(p) /\ c.okay) =>
                 /\ c.result.kind = "original"
                 /\ c.result.calls = <<c.package>> ]_vars

\* a call for a.a, absent under the extraction root, returned the original
\* resolver's result
C5_Witness ==
    /\ Patched /\ Called /\ Bundled
    /\ lastFiles[1].package = [str |-> TRUE, name |-> <<"a", ".", "a">>]
    /\ lastFiles[1].okay
    /\ lastFiles[1].result.kind = "original"
    /\ lastFiles[1].result.calls = <<lastFiles[1].package>>

(***************************************************************************)
(* C6.  In bundled mode with an extraction root set, a call for a dotted   *)
(* package name a.b whose extraction-root path does not exist, and for     *)
(* which the original resolver raises, returns extraction_root/a/b: no     *)
(* exception reaches the caller, and the path is returned without being    *)
(* checked again (exists() was asked once, before the original resolver    *)
(* was tried).                                                             *)
(***************************************************************************)
C6_UncheckedFallback ==
    [][ (FilesCalled /\ Bundled) =>
          LET c == lastFiles'[1]
              p == UnderRoot(meipass0, c.package.name)
          IN  (c.package \in DottedPackages /\ ~exists(p) /\ ~c.okay) =>
                 /\ c.result.kind = "path"
                 /\ c.result.path = p
                 /\ c.result.calls = <<c.package>>
                 /\ c.result.probes = <<p>> ]_vars

\* a call for a.a returned /n/a/a, which does not exist, after the original
\* resolver raised
C6_Witness ==
    /\ Patched /\ Called /\ Bundled
    /\ lastFiles[1].package = [str |-> TRUE, name |-> <<"a", ".", "a">>]
    /\ ~lastFiles[1].okay
    /\ lastFiles[1].result.kind = "path"
    /\ lastFiles[1].result.path =
          [root |-> "/", parts |-> <<<<"n">>, <<"a">>, <<"a">>>>]
    /\ lastFiles[1].result.calls = <<lastFiles[1].package>>
    /\ ~exists(lastFiles[1].result.path)

(***************************************************************************)
(* C7, as claimed.  Once the resolver is patched, no call, whether its     *)
(* package is a string or an object that is not a string, ends in an       *)
(* exception raised by the original resolver.                              *)
(***************************************************************************)
C7_NeverRaises ==
    [][ (FilesCalled /\ files # << >>) =>
          lastFiles'[1].result.kind # "raise" ]_vars

(***************************************************************************)
(* C7, amended.  Once the resolver is patched, a call whose package is a   *)
(* string never ends in an exception raised by the original resolver: when *)
(* the original resolver raises, a path is returned instead.  A call whose *)
(* package is not a string ends in the original resolver's exception       *)
(* exactly when the original resolver raises.                              *)
(***************************************************************************)
C7_StringsNeverRaise ==
    [][ (FilesCalled /\ files # << >>) =>
          LET c == lastFiles'[1]
          IN  /\ c.package.str =>
                    /\ c.result.kind # "raise"
                    /\ ~c.okay => c.result.kind = "path"
              /\ ~c.package.str =>
                    ((c.result.kind = "raise") <=> ~c.okay) ]_vars

\* the original resolver raised for a string that is no well-formed name,
\* and the patched resolver returned a path
C7_Witness ==
    /\ Patched /\ Called /\ files # << >>
    /\ lastFiles[1].package = [str |-> TRUE, name |-> <<".", "a">>]
    /\ ~lastFiles[1].okay
    /\ lastFiles[1].result.kind = "path"
    /\ lastFiles[1].result.calls = <<lastFiles[1].package>>

C8_RepeatIsIdempotent ==
    (pc = Done /\ base.valid /\ base.clean) =>
        /\ env = base.env
        /\ \A sysconf \in SysConfs : call_getproxies(env, sysconf) = << >>
        /\ \A package \in Packages, okay \in BOOLEAN :
              LET now == call_files(files, package, okay)
                  before == call_files(base.files, package, okay)
              IN  /\ now.kind = before.kind
                  /\ now.path = before.path
                  /\ now.calls = before.calls

\* a second execution in bundled mode has completed: the resolver is the
\* wrapper of the wrapper, and an entry exists under the extraction root
C8_Witness ==
    /\ pc = Done /\ runs = 2 /\ base.valid /\ base.clean
    /\ Len(files) = 2 /\ Len(base.files) = 1
    /\ \E e \in fs : e.parts[1] = Tail(meipass0)

====
